---- MODULE Spec2Model ----
(***************************************************************************)
(* Anchor Point API (ky-lake-backend).                                     *)
(*                                                                         *)
(* Two state machines over one set of variables:                           *)
(*   Spec        main.py: concurrent GET /lakes and GET /refresh requests  *)
(*               over storage.json, the storage lock and the clock.        *)
(*   SpecScrape  scraper.py: scrape_lakes and scrape_wolf_creek_cumberland *)
(*               applied to bounded upstream pages.                        *)
(* The clock counts whole hours.  A lake list is abstracted in Spec to the *)
(* number of the upstream report it was parsed from (EmptyLakes is []).    *)
(***************************************************************************)
EXTENDS Integers, Sequences, FiniteSets, TLC

(***************************************************************************)
(* Bounds                                                                  *)
(***************************************************************************)
\* last hour the clock reaches
MaxTime == 3
\* number of distinct non-empty upstream reports
MaxReport == 1

(***************************************************************************)
(* main.py: constants and values                                           *)
(***************************************************************************)
CACHE_HOURS == 2

\* the request threads: two, the least that race (the races here are pairwise,
\* over the one lock and the one file)
Requests == {1, 2}
\* storage_lock is free
NoOne == 0
\* lakes == []
EmptyLakes == 0
Lakes == EmptyLakes..MaxReport
\* the document has no "timestamp_utc" key (saved.get returns None)
NoTs == -1
\* a gap in the file left by a write past its end
Hole == NoTs - 1

Messages == {"Lake table not found", "HTTPError"}
NoMessage == "<absent>"

\* load_storage() returned None
None == [some |-> FALSE, lakes |-> EmptyLakes, timestamp_utc |-> NoTs]
\* a storage.json written before timestamp_utc was stored
LegacyDoc == [some |-> TRUE, lakes |-> EmptyLakes, timestamp_utc |-> NoTs]
\* scrape_lakes() has not been called in this request
NoResult == [called |-> FALSE, error |-> FALSE, message |-> NoMessage, lakes |-> EmptyLakes]
NoBody == [source |-> "<none>", lakes |-> EmptyLakes, timestamp_utc |-> NoTs,
           warning |-> NoMessage, message |-> NoMessage]
NoFile == [exists |-> FALSE, chunks |-> << >>]

VARIABLES
    now,          \* datetime.utcnow(), in hours
    file,         \* storage.json: whether it exists, and its content in chunks
    lock,         \* holder of storage_lock, or NoOne
    pc,           \* per request: position in its handler
    kind,         \* per request: "lakes" or "refresh"
    saved,        \* per request: get_lakes' local saved
    normalized,   \* per request: the local normalized
    after,        \* per request: it began when succeeded was already true
    returned,     \* the response this step sends, with its handler's locals
    persisted,    \* the document of the last write_text that completed
    succeeded,    \* some request has returned a successful scrape
    page,         \* scraper: the LKREPORT response (status, rows after the header row)
    wolPage,      \* scraper: the Wolf Creek response (status, table rows)
    wol,          \* scraper: scrape_lakes' local wol
    out           \* scraper: what scrape_lakes returned

serverVars == <<now, file, lock, pc, kind, saved, normalized, after, returned,
                persisted, succeeded>>
scrapeVars == <<page, wolPage, wol, out>>
vars == <<serverVars, scrapeVars>>

(***************************************************************************)
(* Storage helpers                                                         *)
(***************************************************************************)
\* json.loads(STORAGE_FILE.read_text()): only a whole document parses
Parses(f) ==
    /\ Len(f.chunks) = 2
    /\ f.chunks[1] # Hole
    /\ f.chunks[2] # Hole

Document(f) == [some |-> TRUE, lakes |-> f.chunks[1], timestamp_utc |-> f.chunks[2]]

\* one write() of the open file at offset i
WriteAt(f, i, v) ==
    LET n == IF Len(f.chunks) > i THEN Len(f.chunks) ELSE i
    IN  [f EXCEPT !.chunks = [k \in 1..n |->
            IF k = i THEN v
            ELSE IF k <= Len(f.chunks) THEN f.chunks[k] ELSE Hole]]

\* a variant of CanAcquire that does not wait for the lock
CanAcquireUnlocked(r) == TRUE
\* with storage_lock: blocks until the lock is free
CanAcquire(r) == lock = NoOne

\* a variant of is_cache_fresh that accepts an age equal to the window
is_cache_fresh_inclusive(sv) ==
    IF sv.timestamp_utc = NoTs THEN FALSE
    ELSE (now - sv.timestamp_utc) <= CACHE_HOURS
\* is_cache_fresh: isoformat() of a naive utcnow() and fromisoformat() give back
\* the same instant, so the stored stamp is compared as it was taken
is_cache_fresh(sv) ==
    IF sv.timestamp_utc = NoTs THEN FALSE
    ELSE (now - sv.timestamp_utc) < CACHE_HOURS

normalize_scrape_result(res) ==
    [some |-> TRUE, lakes |-> res.lakes, timestamp_utc |-> now]

Cached(sv, w) == [source |-> "cached", lakes |-> sv.lakes,
                  timestamp_utc |-> sv.timestamp_utc, warning |-> w,
                  message |-> NoMessage]
Fresh(n) == [source |-> "fresh", lakes |-> n.lakes, timestamp_utc |-> n.timestamp_utc,
             warning |-> NoMessage, message |-> NoMessage]
Error(res) == [source |-> "error", lakes |-> res.lakes, timestamp_utc |-> NoTs,
               warning |-> NoMessage, message |-> res.message]

ScrapeOk(l) == [called |-> TRUE, error |-> FALSE, message |-> NoMessage, lakes |-> l]
ScrapeError(m) == [called |-> TRUE, error |-> TRUE, message |-> m, lakes |-> EmptyLakes]

(***************************************************************************)
(* Routes                                                                  *)
(***************************************************************************)
scraperIdle == UNCHANGED scrapeVars

NothingReturned == [kind |-> "<none>", saved |-> None, result |-> NoResult,
                    after |-> FALSE, body |-> NoBody]

\* this step sends no response
NoReturn == returned' = NothingReturned

\* the handler of request r returns body; its thread is free for the next request
Return(r, res, body) ==
    /\ returned' = [kind |-> kind[r], saved |-> saved[r], result |-> res,
                    after |-> after[r], body |-> body]
    /\ pc' = [pc EXCEPT ![r] = "idle"]
    /\ saved' = [saved EXCEPT ![r] = None]
    /\ normalized' = [normalized EXCEPT ![r] = None]
    /\ after' = [after EXCEPT ![r] = FALSE]
    /\ kind' = [kind EXCEPT ![r] = "<none>"]

\* a request arrives: GET /lakes begins at load_storage, GET /refresh at the scrape
Start(r, k) ==
    /\ pc[r] = "idle"
    /\ kind' = [kind EXCEPT ![r] = k]
    /\ pc' = [pc EXCEPT ![r] = IF k = "lakes" THEN "load" ELSE "scrape"]
    /\ after' = [after EXCEPT ![r] = succeeded]
    /\ NoReturn
    /\ UNCHANGED <<now, file, lock, saved, normalized, persisted, succeeded>>
    /\ scraperIdle

\* load_storage: no file, or the read under the lock; any exception gives None
Load(r) ==
    /\ pc[r] = "load"
    /\ \/ /\ ~file.exists
          /\ saved' = [saved EXCEPT ![r] = None]
       \/ /\ file.exists
          /\ CanAcquire(r)
          /\ \/ /\ Parses(file)
                /\ saved' = [saved EXCEPT ![r] = Document(file)]
             \/ saved' = [saved EXCEPT ![r] = None]
    /\ pc' = [pc EXCEPT ![r] = "check"]
    /\ NoReturn
    /\ UNCHANGED <<now, file, lock, kind, normalized, after, persisted, succeeded>>
    /\ scraperIdle

\* get_lakes: if saved and is_cache_fresh(saved): return cached
Check(r) ==
    /\ pc[r] = "check"
    /\ IF saved[r].some /\ is_cache_fresh(saved[r])
       THEN Return(r, NoResult, Cached(saved[r], NoMessage))
       ELSE /\ pc' = [pc EXCEPT ![r] = "scrape"]
            /\ NoReturn
            /\ UNCHANGED <<kind, saved, normalized, after>>
    /\ UNCHANGED <<now, file, lock, persisted, succeeded>>
    /\ scraperIdle

\* scrape_lakes() returned lakes; normalize_scrape_result stamps the clock.
\* The handler reads saved no more, and an answer tagged "fresh" is a dataset,
\* so saved and after are dropped here.
ScrapeSucceeds(r, l) ==
    /\ pc[r] = "scrape"
    /\ normalized' = [normalized EXCEPT ![r] = normalize_scrape_result(ScrapeOk(l))]
    /\ pc' = [pc EXCEPT ![r] = "save"]
    /\ saved' = [saved EXCEPT ![r] = None]
    /\ after' = [after EXCEPT ![r] = FALSE]
    /\ NoReturn
    /\ UNCHANGED <<now, file, lock, kind, persisted, succeeded>>
    /\ scraperIdle

\* a variant of LakesScrapeFails that returns the error although a cache was loaded
LakesScrapeFailsNoFallback(r, m) ==
    /\ pc[r] = "scrape"
    /\ kind[r] = "lakes"
    /\ Return(r, ScrapeError(m), Error(ScrapeError(m)))
    /\ UNCHANGED <<now, file, lock, persisted, succeeded>>
    /\ scraperIdle
\* get_lakes: the scrape failed; fall back to any cache we have
LakesScrapeFails(r, m) ==
    /\ pc[r] = "scrape"
    /\ kind[r] = "lakes"
    /\ Return(r, ScrapeError(m),
              IF saved[r].some THEN Cached(saved[r], m) ELSE Error(ScrapeError(m)))
    /\ UNCHANGED <<now, file, lock, persisted, succeeded>>
    /\ scraperIdle

\* a variant of RefreshScrapeFails that answers with the stored document
RefreshScrapeFailsStale(r, m) ==
    /\ pc[r] = "scrape"
    /\ kind[r] = "refresh"
    /\ Return(r, ScrapeError(m),
              IF Parses(file) THEN Cached(Document(file), m) ELSE Error(ScrapeError(m)))
    /\ UNCHANGED <<now, file, lock, persisted, succeeded>>
    /\ scraperIdle
\* refresh: the scrape failed; return the error
RefreshScrapeFails(r, m) ==
    /\ pc[r] = "scrape"
    /\ kind[r] = "refresh"
    /\ Return(r, ScrapeError(m), Error(ScrapeError(m)))
    /\ UNCHANGED <<now, file, lock, persisted, succeeded>>
    /\ scraperIdle

\* the handler returns {"source": "fresh", **normalized}
ReturnFresh(r) ==
    /\ Return(r, ScrapeOk(normalized[r].lakes), Fresh(normalized[r]))
    /\ succeeded' = TRUE

\* save_storage: take the lock; write_text opens the file, which truncates it
SaveOpen(r) ==
    /\ pc[r] = "save"
    /\ CanAcquire(r)
    /\ lock' = r
    /\ file' = [exists |-> TRUE, chunks |-> << >>]
    /\ pc' = [pc EXCEPT ![r] = "write1"]
    /\ NoReturn
    /\ UNCHANGED <<now, kind, saved, normalized, after, persisted, succeeded>>
    /\ scraperIdle

\* save_storage: the open fails; the exception is swallowed, the file is untouched
SaveOpenFails(r) ==
    /\ pc[r] = "save"
    /\ CanAcquire(r)
    /\ ReturnFresh(r)
    /\ UNCHANGED <<now, file, lock, persisted>>
    /\ scraperIdle

\* write_text: the first part of json.dumps(data), up to and including "lakes"
Write1(r) ==
    /\ pc[r] = "write1"
    /\ file' = WriteAt(file, 1, normalized[r].lakes)
    /\ pc' = [pc EXCEPT ![r] = "write2"]
    /\ NoReturn
    /\ UNCHANGED <<now, lock, kind, saved, normalized, after, persisted, succeeded>>
    /\ scraperIdle

\* write_text: the rest, "timestamp_utc"; the file is closed, the lock released
Write2(r) ==
    /\ pc[r] = "write2"
    /\ file' = WriteAt(file, 2, normalized[r].timestamp_utc)
    /\ persisted' = normalized[r]
    /\ lock' = NoOne
    /\ ReturnFresh(r)
    /\ UNCHANGED now
    /\ scraperIdle

\* write_text raises part-way (disk full): swallowed, the lock released,
\* the file left as far as it was written
WriteFails(r) ==
    /\ pc[r] \in {"write1", "write2"}
    /\ lock' = NoOne
    /\ ReturnFresh(r)
    /\ UNCHANGED <<now, file, persisted>>
    /\ scraperIdle

\* an hour passes
Tick ==
    /\ now < MaxTime
    /\ now' = now + 1
    /\ NoReturn
    /\ UNCHANGED <<file, lock, pc, kind, saved, normalized, after, persisted, succeeded>>
    /\ scraperIdle


(***************************************************************************)
(* scraper.py.  Text is a sequence of one-character strings; a number is   *)
(* absent (None) or present with its value in tenths.                      *)
(***************************************************************************)
\* bounds: rows of the LKREPORT table after its header, rows of the Wolf Creek table
MaxRows == 2
MaxWolRows == 2

\* tenths per unit of a float
Scale == 10
\* _first_number_near_label: window
Window == 140
\* scrape_lakes: if len(cols) < 13: continue
MinCols == 13
\* _maybe_kcfs_to_cfs: v * 1000 if v < 200 else v
KcfsBelow == 200
KcfsFactor == 1000

Absent == [present |-> FALSE, tenths |-> 0]
Num(t) == [present |-> TRUE, tenths |-> t]

LowerMap == "A" :> "a" @@ "B" :> "b" @@ "C" :> "c" @@ "D" :> "d" @@ "E" :> "e" @@ "F" :> "f" @@ "G" :> "g" @@ "H" :> "h" @@ "I" :> "i" @@ "J" :> "j" @@ "K" :> "k" @@ "L" :> "l" @@ "M" :> "m" @@ "N" :> "n" @@ "O" :> "o" @@ "P" :> "p" @@ "Q" :> "q" @@ "R" :> "r" @@ "S" :> "s" @@ "T" :> "t" @@ "U" :> "u" @@ "V" :> "v" @@ "W" :> "w" @@ "X" :> "x" @@ "Y" :> "y" @@ "Z" :> "z"
DigitVal == "0" :> 0 @@ "1" :> 1 @@ "2" :> 2 @@ "3" :> 3 @@ "4" :> 4 @@ "5" :> 5 @@ "6" :> 6 @@ "7" :> 7 @@ "8" :> 8 @@ "9" :> 9
Digits == DOMAIN DigitVal
Whitespace == {" ", "\t", "\n"}

\* str.lower()
Lower(t) == [i \in 1..Len(t) |-> IF t[i] \in DOMAIN LowerMap THEN LowerMap[t[i]] ELSE t[i]]

RECURSIVE LStrip(_)
LStrip(t) == IF t # << >> /\ Head(t) \in Whitespace THEN LStrip(Tail(t)) ELSE t
RECURSIVE RStrip(_)
RStrip(t) ==
    IF t # << >> /\ t[Len(t)] \in Whitespace THEN RStrip(SubSeq(t, 1, Len(t) - 1)) ELSE t
\* str.strip()
Strip(t) == RStrip(LStrip(t))

\* str.replace(c, "") for each c of chars
Without(t, chars) == SelectSeq(t, LAMBDA c : c \notin chars)

RECURSIVE Natural(_)
\* the value of a run of digits
Natural(t) == IF t = << >> THEN 0 ELSE Natural(SubSeq(t, 1, Len(t) - 1)) * 10 + DigitVal[t[Len(t)]]

\* float(t) for a signed decimal numeral with at most one fraction digit kept;
\* anything else raises ValueError, here Absent
Float(t) ==
    LET neg  == t # << >> /\ Head(t) = "-"
        body == IF t # << >> /\ Head(t) \in {"-", "+"} THEN Tail(t) ELSE t
        dots == {i \in 1..Len(body) : body[i] = "."}
        dot  == IF dots = {} THEN Len(body) + 1 ELSE CHOOSE i \in dots : TRUE
        int  == SubSeq(body, 1, dot - 1)
        frac == SubSeq(body, dot + 1, Len(body))
        ok   == /\ Cardinality(dots) <= 1
                /\ \A i \in 1..Len(body) : body[i] \in Digits \cup {"."}
                /\ Len(int) + Len(frac) > 0
        mag  == Natural(int) * Scale + (IF frac = << >> THEN 0 ELSE DigitVal[frac[1]])
    IN  IF ok THEN Num(IF neg THEN 0 - mag ELSE mag) ELSE Absent

\* _num
num(x) == Float(Strip(Without(x, {",", "%"})))

\* re.search(r"(-?\d+(?:\.\d+)?)", t): the leftmost match, << >> when there is none
FirstNumeral(t) ==
    LET IsStart(i) == \/ t[i] \in Digits
                      \/ t[i] = "-" /\ i < Len(t) /\ t[i + 1] \in Digits
        starts == {i \in 1..Len(t) : IsStart(i)}
    IN  IF starts = {} THEN << >>
        ELSE LET b  == CHOOSE i \in starts : \A j \in starts : i <= j
                 d  == IF t[b] = "-" THEN b + 1 ELSE b
                 \* the end of the run of digits that begins at i
                 RunEnd(i) == CHOOSE e \in i..Len(t) :
                                  /\ \A k \in i..e : t[k] \in Digits
                                  /\ e = Len(t) \/ t[e + 1] \notin Digits
                 e1 == RunEnd(d)
                 e2 == IF e1 + 2 <= Len(t) /\ t[e1 + 1] = "." /\ t[e1 + 2] \in Digits
                       THEN RunEnd(e1 + 2) ELSE e1
             IN  SubSeq(t, b, e2)

RECURSIVE Join(_)
\* " ".join(ws)
Join(ws) ==
    IF ws = << >> THEN << >>
    ELSE IF Len(ws) = 1 THEN ws[1]
    ELSE ws[1] \o <<" ">> \o Join(Tail(ws))

\* Label patterns on whitespace-normalized text, under re.IGNORECASE: each is
\* the set of word sequences, in lower case, that the pattern spans.
PoolElevation == {<<<<"p", "o", "o", "l">>, <<"e", "l", "e", "v", "a", "t", "i", "o", "n">>>>, <<<<"p", "o", "o", "l", "e", "l", "e", "v", "a", "t", "i", "o", "n">>>>}
LakeElevation == {<<<<"l", "a", "k", "e">>, <<"e", "l", "e", "v", "a", "t", "i", "o", "n">>>>, <<<<"l", "a", "k", "e", "e", "l", "e", "v", "a", "t", "i", "o", "n">>>>}
Elevation == {<<<<"e", "l", "e", "v", "a", "t", "i", "o", "n">>>>, <<<<"p", "o", "o", "l", "e", "l", "e", "v", "a", "t", "i", "o", "n">>>>, <<<<"l", "a", "k", "e", "e", "l", "e", "v", "a", "t", "i", "o", "n">>>>}
Inflow == {<<<<"i", "n", "f", "l", "o", "w">>>>}
InFlow == {<<<<"i", "n">>, <<"f", "l", "o", "w">>>>, <<<<"i", "n", "f", "l", "o", "w">>>>}
Outflow == {<<<<"o", "u", "t", "f", "l", "o", "w">>>>}
OutFlow == {<<<<"o", "u", "t">>, <<"f", "l", "o", "w">>>>, <<<<"o", "u", "t", "f", "l", "o", "w">>>>}
TotalFlow == {<<<<"t", "o", "t", "a", "l">>, <<"f", "l", "o", "w">>>>, <<<<"t", "o", "t", "a", "l", "f", "l", "o", "w">>>>}
Release == {<<<<"r", "e", "l", "e", "a", "s", "e">>>>}

\* the pattern matches the words that begin at word i
MatchesAt(ws, label, i) ==
    \E a \in label : /\ i + Len(a) - 1 <= Len(ws)
                     /\ \A k \in 1..Len(a) : Lower(ws[i + k - 1]) = a[k]

\* index of the last word of the leftmost match, 0 when re.search finds none
MatchEnd(ws, label) ==
    LET at == {i \in 1..Len(ws) : MatchesAt(ws, label, i)}
    IN  IF at = {} THEN 0
        ELSE LET i == CHOOSE x \in at : \A y \in at : x <= y
                 a == CHOOSE x \in label :
                          /\ i + Len(x) - 1 <= Len(ws)
                          /\ \A k \in 1..Len(x) : Lower(ws[i + k - 1]) = x[k]
             IN  i + Len(a) - 1

\* full_text[m.end():] when the match ends with word e
After(ws, e) == IF e = Len(ws) THEN << >> ELSE <<" ">> \o Join(SubSeq(ws, e + 1, Len(ws)))

\* _first_number_near_label(full_text, label_regex)
first_number_near_label(ws, label) ==
    LET e == MatchEnd(ws, label)
    IN  IF e = 0 THEN Absent
        ELSE LET rest    == After(ws, e)
                 snippet == SubSeq(rest, 1, IF Len(rest) < Window THEN Len(rest) ELSE Window)
                 n       == FirstNumeral(Without(snippet, {","}))
             IN  IF n = << >> THEN Absent ELSE num(n)

\* _maybe_kcfs_to_cfs
maybe_kcfs_to_cfs(v) ==
    IF ~v.present THEN Absent
    ELSE IF v.tenths < KcfsBelow * Scale THEN Num(v.tenths * KcfsFactor) ELSE v

\* bool(v) of a float or None
Truthy(v) == v.present /\ v.tenths # 0
\* a or b
Or(a, b) == IF Truthy(a) THEN a ELSE b

RECURSIVE Concat(_)
\* the words of all rows, in order
Concat(rows) == IF rows = << >> THEN << >> ELSE Head(rows) \o Concat(Tail(rows))

\* _clean_text_for_regex(soup): the page's text, one space between words
full_text(rows) == Concat(rows)

\* scrape_wolf_creek_cumberland: pool = a or b or c
pool_near_label(ws) ==
    Or(first_number_near_label(ws, PoolElevation),
       Or(first_number_near_label(ws, LakeElevation),
          first_number_near_label(ws, Elevation)))

inflow_near_label(ws) ==
    Or(first_number_near_label(ws, Inflow), first_number_near_label(ws, InFlow))

outflow_near_label(ws) ==
    Or(first_number_near_label(ws, Outflow),
       Or(first_number_near_label(ws, OutFlow),
          Or(first_number_near_label(ws, TotalFlow),
             first_number_near_label(ws, Release))))

\* the fallback: the first table row that holds "Pool Elevation" and a number
pool_from_rows(rows) ==
    LET hit(i) == /\ MatchEnd(rows[i], PoolElevation) # 0
                  /\ FirstNumeral(Without(Join(rows[i]), {","})) # << >>
        hits == {i \in 1..Len(rows) : hit(i)}
    IN  IF hits = {} THEN Absent
        ELSE LET i == CHOOSE x \in hits : \A y \in hits : x <= y
             IN  num(FirstNumeral(Without(Join(rows[i]), {","})))

Cumberland == <<"C", "u", "m", "b", "e", "r", "l", "a", "n", "d">>
LakeCumberland == <<"L", "a", "k", "e", " ", "C", "u", "m", "b", "e", "r", "l", "a", "n", "d">>
lake_cumberland == <<"l", "a", "k", "e", " ", "c", "u", "m", "b", "e", "r", "l", "a", "n", "d">>

NoRecord == [some |-> FALSE, basin |-> << >>, project |-> << >>, todayPool |-> Absent,
             deviation |-> Absent, change24h |-> Absent, precip24h |-> Absent,
             inflow |-> Absent, outflow |-> Absent, percentUtil |-> Absent]

\* scrape_wolf_creek_cumberland; NoRecord is None, and also stands for the
\* exception of a failed request, which scrape_lakes catches
scrape_wolf_creek_cumberland(wp) ==
    IF wp.status # "ok" THEN NoRecord
    ELSE LET ws      == full_text(wp.rows)
             pool0   == pool_near_label(ws)
             pool    == IF ~pool0.present THEN pool_from_rows(wp.rows) ELSE pool0
             inflow  == maybe_kcfs_to_cfs(inflow_near_label(ws))
             outflow == maybe_kcfs_to_cfs(outflow_near_label(ws))
         IN  IF ~pool.present /\ ~inflow.present /\ ~outflow.present THEN NoRecord
             ELSE [NoRecord EXCEPT !.some = TRUE, !.basin = Cumberland,
                       !.project = LakeCumberland, !.todayPool = pool,
                       !.inflow = inflow, !.outflow = outflow]

\* lakes.append({...}) for one row of at least 13 cells
Reading(cols, basin) ==
    [some |-> TRUE, basin |-> basin, project |-> cols[2], todayPool |-> num(cols[6]),
     deviation |-> num(cols[7]), change24h |-> num(cols[8]), precip24h |-> num(cols[9]),
     inflow |-> num(cols[10]), outflow |-> num(cols[11]), percentUtil |-> num(cols[13])]

\* a variant of the row loop that labels a row with its own first cell only
RECURSIVE parse_rows_no_fill(_, _)
parse_rows_no_fill(rows, last_basin) ==
    IF rows = << >> THEN << >>
    ELSE LET cols == Head(rows)
         IN  IF Len(cols) < MinCols THEN parse_rows_no_fill(Tail(rows), last_basin)
             ELSE <<Reading(cols, cols[1])>> \o parse_rows_no_fill(Tail(rows), cols[1])
\* scrape_lakes: the loop over rows[1:], with the basin fill-down
RECURSIVE parse_rows(_, _)
parse_rows(rows, last_basin) ==
    IF rows = << >> THEN << >>
    ELSE LET cols == Head(rows)
         IN  IF Len(cols) < MinCols THEN parse_rows(Tail(rows), last_basin)
             ELSE LET basin == IF cols[1] # << >> THEN cols[1] ELSE last_basin
                  IN  <<Reading(cols, basin)>> \o parse_rows(Tail(rows), basin)

\* a variant of merge_wol that lets the Wolf Creek values replace the report's
merge_wol_overwrite(lakes, w) ==
    IF ~w.some THEN lakes
    ELSE LET hits == {i \in 1..Len(lakes) : Lower(Strip(lakes[i].project)) = lake_cumberland}
         IN  IF hits = {} THEN Append(lakes, w)
             ELSE LET i == CHOOSE x \in hits : \A y \in hits : x <= y
                      l == lakes[i]
                  IN  [lakes EXCEPT ![i] =
                          [l EXCEPT !.todayPool = IF w.todayPool.present THEN w.todayPool ELSE @,
                                    !.inflow = IF w.inflow.present THEN w.inflow ELSE @,
                                    !.outflow = IF w.outflow.present THEN w.outflow ELSE @]]
\* scrape_lakes: add/merge Lake Cumberland from the Wolf Creek page
merge_wol(lakes, w) ==
    IF ~w.some THEN lakes
    ELSE LET hits == {i \in 1..Len(lakes) : Lower(Strip(lakes[i].project)) = lake_cumberland}
             Fill(mine, theirs) == IF ~mine.present /\ theirs.present THEN theirs ELSE mine
         IN  IF hits = {} THEN Append(lakes, w)
             ELSE LET i == CHOOSE x \in hits : \A y \in hits : x <= y
                      l == lakes[i]
                  IN  [lakes EXCEPT ![i] =
                          [l EXCEPT !.todayPool = Fill(l.todayPool, w.todayPool),
                                    !.inflow = Fill(l.inflow, w.inflow),
                                    !.outflow = Fill(l.outflow, w.outflow)]]

NotCalled == [called |-> FALSE, error |-> FALSE, message |-> NoMessage, lakes |-> << >>]

\* scrape_lakes
scrape_lakes(pg, w) ==
    IF pg.status = "http_error"
    THEN [called |-> TRUE, error |-> TRUE, message |-> "HTTPError", lakes |-> << >>]
    ELSE IF pg.status = "no_table"
    THEN [called |-> TRUE, error |-> TRUE, message |-> "Lake table not found", lakes |-> << >>]
    ELSE [called |-> TRUE, error |-> FALSE, message |-> NoMessage,
          lakes |-> merge_wol(parse_rows(pg.rows, << >>), w)]

(***************************************************************************)
(* Upstream pages the scraper is run on                                    *)
(***************************************************************************)
\* a basin heading on a row of its own (3 cells)
RowHeading == <<<<"C", "u", "m", "b", "e", "r", "l", "a", "n", "d">>,
      << >>,
      << >>>>
RowBarren ==
    <<<<"G", "r", "e", "e", "n">>,
      <<"B", "a", "r", "r", "e", "n">>,
      <<"x">>,
      <<"x">>,
      <<"x">>,
      <<"5", "5", "2", ".", "3">>,
      <<"0", ".", "3">>,
      <<"-", "0", ".", "1">>,
      <<"0">>,
      <<"1", ",", "2", "5", "0">>,
      <<"9", "0", "0">>,
      <<"x">>,
      <<"1", "2", "%">>>>
RowNolin ==
    <<<< >>,
      <<"N", "o", "l", "i", "n">>,
      <<"x">>,
      <<"x">>,
      <<"x">>,
      <<"5", "1", "5">>,
      <<"N", "/", "A">>,
      << >>,
      << >>,
      << >>,
      <<"1", "5", "0">>,
      <<"x">>,
      << >>>>
\* every numeric cell unreadable
RowBlank ==
    <<<< >>,
      <<"P", "r", "o", "j", "e", "c", "t">>,
      <<"x">>,
      <<"x">>,
      <<"x">>,
      <<"P", "o", "o", "l">>,
      << >>,
      << >>,
      << >>,
      <<"N", "/", "A">>,
      << >>,
      <<"x">>,
      <<"%">>>>
\* Lake Cumberland with no pool and no outflow
RowCumberlandGaps ==
    <<<< >>,
      <<"L", "A", "K", "E", " ", "C", "U", "M", "B", "E", "R", "L", "A", "N", "D", " ">>,
      <<"x">>,
      <<"x">>,
      <<"x">>,
      << >>,
      <<"1", ".", "5">>,
      << >>,
      << >>,
      <<"5", ",", "0", "0", "0">>,
      <<"N", "/", "A">>,
      <<"x">>,
      <<"4", "0", "%">>>>
RowCumberlandFull ==
    <<<<"C", "u", "m", "b", "e", "r", "l", "a", "n", "d">>,
      <<"L", "a", "k", "e", " ", "C", "u", "m", "b", "e", "r", "l", "a", "n", "d">>,
      <<"x">>,
      <<"x">>,
      <<"x">>,
      <<"7", "2", "3", ".", "1">>,
      << >>,
      << >>,
      << >>,
      <<"4", ",", "8", "0", "0">>,
      <<"1", "2", ",", "0", "0", "0">>,
      <<"x">>,
      << >>>>

ReportRows == {RowHeading, RowBarren, RowNolin, RowBlank, RowCumberlandGaps, RowCumberlandFull}

Filler == [i \in 1..(Window \div 2) |-> "x"]

WolPool == <<<<"P", "o", "o", "l">>, <<"E", "l", "e", "v", "a", "t", "i", "o", "n">>, <<"7", "2", "3", ".", "1">>>>
WolPoolZero == <<<<"P", "O", "O", "L">>, <<"E", "L", "E", "V", "A", "T", "I", "O", "N">>, <<"0">>>>
WolLake == <<<<"L", "a", "k", "e">>, <<"E", "l", "e", "v", "a", "t", "i", "o", "n">>, <<"7", "0", "0">>>>
WolPoolBefore == <<<<"7", "1", "0", ".", "5">>, <<"P", "o", "o", "l">>, <<"E", "l", "e", "v", "a", "t", "i", "o", "n">>>>
WolInflowZero == <<<<"I", "n", "f", "l", "o", "w">>, <<"0">>>>
WolInFlow == <<<<"I", "n">>, <<"F", "l", "o", "w">>, <<"5">>>>
WolOutflow == <<<<"O", "u", "t", "f", "l", "o", "w">>, <<"1", "2", ".", "4">>>>
WolOutflowZero == <<<<"O", "u", "t", "f", "l", "o", "w">>, <<"0", ".", "0">>>>
WolRelease == <<<<"R", "e", "l", "e", "a", "s", "e">>, <<"1", ",", "2", "5", "0">>>>
WolAll == <<<<"E", "l", "e", "v", "a", "t", "i", "o", "n">>, <<"6", "9", "0">>, <<"I", "n", "f", "l", "o", "w">>, <<"4", ",", "8", "0", "0">>, <<"T", "o", "t", "a", "l">>, <<"F", "l", "o", "w">>, <<"1", "5", "0">>>>
WolFiller == <<Filler, Filler>>

WolRows == {WolPool, WolPoolZero, WolLake, WolPoolBefore, WolInflowZero, WolInFlow,
            WolOutflow, WolOutflowZero, WolRelease, WolAll, WolFiller}

SeqsUpTo(S, n) == UNION {[1..k -> S] : k \in 0..n}

\* the LKREPORT response: an HTTP failure, a page with no table, or a table
ReportPages ==
    {[status |-> "http_error", rows |-> << >>], [status |-> "no_table", rows |-> << >>]}
    \cup {[status |-> "ok", rows |-> rs] : rs \in SeqsUpTo(ReportRows, MaxRows)}

\* the Wolf Creek response: an HTTP failure, or a page
WolPages ==
    {[status |-> "http_error", rows |-> << >>]}
    \cup {[status |-> "ok", rows |-> rs] : rs \in SeqsUpTo(WolRows, MaxWolRows)}

NoPage == [status |-> "none", rows |-> << >>]

ScraperInit ==
    /\ page = NoPage
    /\ wolPage = NoPage
    /\ wol = NoRecord
    /\ out = NotCalled

\* the process starts with no storage.json, or with one left by an earlier version
Init ==
    /\ now = 0
    /\ \/ file = NoFile /\ persisted = None
       \/ /\ file = [exists |-> TRUE, chunks |-> <<LegacyDoc.lakes, LegacyDoc.timestamp_utc>>]
          /\ persisted = LegacyDoc
    /\ lock = NoOne
    /\ pc = [r \in Requests |-> "idle"]
    /\ kind = [r \in Requests |-> "<none>"]
    /\ saved = [r \in Requests |-> None]
    /\ normalized = [r \in Requests |-> None]
    /\ after = [r \in Requests |-> FALSE]
    /\ returned = NothingReturned
    /\ succeeded = FALSE
    /\ ScraperInit

Next ==
    \/ \E r \in Requests, k \in {"lakes", "refresh"} : Start(r, k)
    \/ \E r \in Requests : Load(r)
    \/ \E r \in Requests : Check(r)
    \/ \E r \in Requests, l \in Lakes : ScrapeSucceeds(r, l)
    \/ \E r \in Requests, m \in Messages : LakesScrapeFails(r, m)
    \/ \E r \in Requests, m \in Messages : RefreshScrapeFails(r, m)
    \/ \E r \in Requests : SaveOpen(r)
    \/ \E r \in Requests : SaveOpenFails(r)
    \/ \E r \in Requests : Write1(r)
    \/ \E r \in Requests : Write2(r)
    \/ \E r \in Requests : WriteFails(r)
    \/ Tick

Spec == Init /\ [][Next]_vars
(***************************************************************************)
(* The scraper on its own                                                  *)
(***************************************************************************)
ServerInit ==
    /\ now = 0
    /\ file = NoFile
    /\ persisted = None
    /\ lock = NoOne
    /\ pc = [r \in Requests |-> "idle"]
    /\ kind = [r \in Requests |-> "<none>"]
    /\ saved = [r \in Requests |-> None]
    /\ normalized = [r \in Requests |-> None]
    /\ after = [r \in Requests |-> FALSE]
    /\ returned = NothingReturned
    /\ succeeded = FALSE

\* the upstream serves any report while Wolf Creek serves a one-row page or
\* fails, or an empty report while Wolf Creek serves any page
InitScrape ==
    /\ ServerInit
    /\ \/ /\ page \in ReportPages
          /\ wolPage \in {w \in WolPages : Len(w.rows) <= 1}
       \/ /\ page = [status |-> "ok", rows |-> << >>]
          /\ wolPage \in WolPages
    /\ wol = NoRecord
    /\ out = NotCalled

\* scrape_lakes() runs once on the pages served
ScrapeLakes ==
    /\ ~out.called
    /\ wol' = IF page.status = "ok" THEN scrape_wolf_creek_cumberland(wolPage) ELSE NoRecord
    /\ out' = scrape_lakes(page, wol')
    /\ UNCHANGED <<page, wolPage>>
    /\ UNCHANGED serverVars

NextScrape == ScrapeLakes

SpecScrape == InitScrape /\ [][NextScrape]_vars

(***************************************************************************)
(* Properties of the routes (checked under Spec)                           *)
(***************************************************************************)
Datasets == {"cached", "fresh"}

\* C1: once a request has returned a successful scrape, every GET /lakes that
\* begins later returns a dataset (source "cached" or "fresh"), never "error".
C1_LakesAlwaysAvailable ==
    (returned.kind = "lakes" /\ returned.after) => returned.body.source \in Datasets

\* C2: GET /refresh answers "error" with no readings of the stored snapshot when
\* the scrape fails, "fresh" when it succeeds, and never "cached".
C2_RefreshNeverStale ==
    returned.kind = "refresh" =>
        /\ returned.result.called
        /\ returned.body.source # "cached"
        /\ returned.result.error =>
              /\ returned.body.source = "error"
              /\ returned.body.lakes = EmptyLakes
              /\ returned.body.timestamp_utc = NoTs
              /\ returned.body.message = returned.result.message
        /\ ~returned.result.error =>
              /\ returned.body.source = "fresh"
              /\ returned.body.lakes = returned.result.lakes

\* C2 witness: a refresh fails while storage.json holds a stale snapshot with readings
C2_Witness ==
    /\ returned.kind = "refresh"
    /\ returned.result.error
    /\ Parses(file)
    /\ Document(file).lakes # EmptyLakes
    /\ now - Document(file).timestamp_utc >= CACHE_HOURS

\* what the freshness gate is to decide, from the loaded entry and the clock
WithinWindow(sv) ==
    sv.some /\ sv.timestamp_utc # NoTs /\ now - sv.timestamp_utc < CACHE_HOURS

\* C3: a loaded entry younger than the window is returned tagged "cached", with
\* no scrape and storage.json untouched; an absent or unreadable entry, one with
\* no usable timestamp, or one as old as the window or older leads to a scrape.
C3_FreshnessGate ==
    [][\A r \in Requests :
          (pc[r] = "check" /\ pc'[r] # "check") =>
              IF WithinWindow(saved[r])
              THEN /\ pc'[r] = "idle"
                   /\ returned'.kind = "lakes"
                   /\ returned'.body = [source |-> "cached", lakes |-> saved[r].lakes,
                                        timestamp_utc |-> saved[r].timestamp_utc,
                                        warning |-> NoMessage, message |-> NoMessage]
                   /\ ~returned'.result.called
                   /\ file' = file
                   /\ persisted' = persisted
              ELSE /\ pc'[r] = "scrape"
                   /\ returned' = NothingReturned]_vars

\* C3 witness: a snapshot one hour short of the window is served from the cache
C3_Witness ==
    /\ returned.kind = "lakes"
    /\ returned.body.source = "cached"
    /\ returned.body.warning = NoMessage
    /\ ~returned.result.called
    /\ now - returned.body.timestamp_utc = CACHE_HOURS - 1

\* C4: when the refetch of GET /lakes fails, a loaded entry is returned tagged
\* "cached" with the failure's message as warning and storage.json is left as
\* it is; with no loaded entry the response is tagged "error".
C4_StaleFallback ==
    [][\A r \in Requests, m \in Messages :
          (pc[r] = "scrape" /\ kind[r] = "lakes" /\ pc'[r] = "idle"
             /\ returned'.result = ScrapeError(m)) =>
              /\ file' = file
              /\ persisted' = persisted
              /\ IF saved[r].some
                 THEN returned'.body = [source |-> "cached", lakes |-> saved[r].lakes,
                                        timestamp_utc |-> saved[r].timestamp_utc,
                                        warning |-> m, message |-> NoMessage]
                 ELSE returned'.body.source = "error"]_vars

\* C4 witness: a stale snapshot is served with a warning after a failed refetch
C4_Witness ==
    /\ returned.kind = "lakes"
    /\ returned.result.error
    /\ returned.saved.some
    /\ returned.saved.timestamp_utc # NoTs
    /\ now - returned.saved.timestamp_utc >= CACHE_HOURS
    /\ returned.body.source = "cached"
    /\ returned.body.warning \in Messages

\* C8: from one completed save to the next the persisted capture time never
\* decreases.
C8_PersistedNeverOlder ==
    [][(persisted.some /\ persisted'.some) =>
          persisted'.timestamp_utc >= persisted.timestamp_utc]_vars

\* C9: a load that returns an entry returns the whole document of the last
\* completed save, and the lock is held by a request only while it writes
\* (a read takes and releases it within one step), never during a scrape.
C9_WholeSnapshots ==
    /\ [][\A r \in Requests :
            (pc[r] = "load" /\ pc'[r] = "check" /\ saved'[r].some) =>
                saved'[r] = persisted]_vars
    /\ [](\A r \in Requests :
            /\ lock = r => pc[r] \in {"write1", "write2"}
            /\ pc[r] \in {"write1", "write2"} => lock = r)

\* C9 witness: one request holds a snapshot it loaded while another is in the
\* middle of writing a different one
C9_Witness ==
    \E r, q \in Requests :
        /\ pc[r] = "check"
        /\ saved[r].some
        /\ saved[r].timestamp_utc # NoTs
        /\ pc[q] = "write2"
        /\ normalized[q] # saved[r]

(***************************************************************************)
(* Properties of the scraper (checked under SpecScrape)                    *)
(***************************************************************************)
Scraped == out.called /\ ~out.error

\* the seven optional numeric fields
Optional(l) == <<l.todayPool, l.deviation, l.change24h, l.precip24h,
                 l.inflow, l.outflow, l.percentUtil>>

\* project names compared case-insensitively after trimming
SameProject(a, b) == Lower(Strip(a)) = Lower(Strip(b))

Least(S) == CHOOSE x \in S : \A y \in S : x <= y
Greatest(S) == CHOOSE x \in S : \A y \in S : x >= y

\* C5: fill gaps, never overwrite, append if missing.
C5_MergePolicy ==
    Scraped =>
        LET P == parse_rows(page.rows, << >>)
            R == out.lakes
            hits == {i \in 1..Len(P) : SameProject(P[i].project, wol.project)}
            Filled(mine, theirs) == IF ~mine.present /\ theirs.present THEN theirs ELSE mine
        IN  IF ~wol.some THEN R = P
            ELSE IF hits = {} THEN R = P \o <<wol>>
            ELSE /\ Len(R) = Len(P)
                 /\ \A j \in 1..Len(P) : j # Least(hits) => R[j] = P[j]
                 /\ LET l == P[Least(hits)]
                        m == R[Least(hits)]
                    IN  /\ m.todayPool = Filled(l.todayPool, wol.todayPool)
                        /\ m.inflow = Filled(l.inflow, wol.inflow)
                        /\ m.outflow = Filled(l.outflow, wol.outflow)
                        /\ m.basin = l.basin
                        /\ m.project = l.project
                        /\ m.deviation = l.deviation
                        /\ m.change24h = l.change24h
                        /\ m.precip24h = l.precip24h
                        /\ m.percentUtil = l.percentUtil

\* C5 witness: a Lake Cumberland row lacks the pool, which Wolf Creek supplies,
\* and has an inflow that differs from Wolf Creek's and is kept
C5_Witness ==
    /\ Scraped
    /\ wol.some
    /\ \E i \in 1..Len(out.lakes) :
          LET l == parse_rows(page.rows, << >>)[i]
          IN  /\ i <= Len(parse_rows(page.rows, << >>))
              /\ SameProject(l.project, wol.project)
              /\ ~l.todayPool.present
              /\ wol.todayPool.present
              /\ out.lakes[i].todayPool = wol.todayPool
              /\ l.inflow.present
              /\ wol.inflow.present
              /\ l.inflow # wol.inflow
              /\ out.lakes[i].inflow = l.inflow

\* the rows that are emitted, by index, in order
Emitted(rows) == SelectSeq([j \in 1..Len(rows) |-> j], LAMBDA j : Len(rows[j]) >= MinCols)

Labelled(rows, j) == Len(rows[j]) >= 1 /\ rows[j][1] # << >>

C7_NoWorthlessRecord ==
    Scraped =>
        /\ \A k \in 1..Len(Emitted(page.rows)) :
              \E f \in 1..7 : Optional(out.lakes[k])[f].present
        /\ wol.some => (wol.todayPool.present \/ wol.inflow.present \/ wol.outflow.present)

\* the first alternative that is not absent
RECURSIVE FirstPresent(_)
FirstPresent(alts) ==
    IF alts = << >> THEN Absent
    ELSE IF Head(alts).present THEN Head(alts) ELSE FirstPresent(Tail(alts))

\* C10: each of pool, inflow and outflow is the number of the first label
\* alternative whose extraction is not absent, whatever its value.
C10_FirstSuccessWins ==
    (Scraped /\ wolPage.status = "ok") =>
        LET ws == full_text(wolPage.rows)
            pool == FirstPresent(<<first_number_near_label(ws, PoolElevation),
                                   first_number_near_label(ws, LakeElevation),
                                   first_number_near_label(ws, Elevation)>>)
            inflow == FirstPresent(<<first_number_near_label(ws, Inflow),
                                     first_number_near_label(ws, InFlow)>>)
            outflow == FirstPresent(<<first_number_near_label(ws, Outflow),
                                      first_number_near_label(ws, OutFlow),
                                      first_number_near_label(ws, TotalFlow),
                                      first_number_near_label(ws, Release)>>)
        IN  IF wol.some
            THEN /\ pool.present => wol.todayPool = pool
                 /\ wol.inflow = maybe_kcfs_to_cfs(inflow)
                 /\ wol.outflow = maybe_kcfs_to_cfs(outflow)
            ELSE ~pool.present /\ ~inflow.present /\ ~outflow.present

====
